---- MODULE Spec2Model ----
(***************************************************************************)
(* Legend Cut: the per-frame hair-compositing pipeline                     *)
(* (app/utils/face_utils.py, app/utils/hair_overlay.py) and the session    *)
(* and process-frame handlers of app/main.py.                              *)
(*                                                                         *)
(* Numbers.  Python floats are IEEE doubles.  Every float expression of    *)
(* the code that is truncated with int() is modelled on integers by an     *)
(* operator that yields the same integer as the double computation:        *)
(*   - landmark coordinates are dyadic rationals n / LandmarkDen, so       *)
(*     x * w and |y1 - y2| * h are exact in doubles;                       *)
(*   - int(n * 0.4), int(n * 0.6), int(n * 0.8), int(n * 1.2) and          *)
(*     int(v * 1.8) equal the exact floors for every n < 5000;             *)
(*   - int(w * (r / d)) is TruncMulDiv(w, r, d), which reproduces the      *)
(*     rounding of the quotient and of the product.                        *)
(***************************************************************************)
EXTENDS Integers, Sequences, FiniteSets, TLC

VARIABLES
    active_sessions,   \* main.py: session id -> {"adjustments": ...}
    session_settings,  \* HairOverlay.session_settings
    haircut_cache,     \* HairOverlay.haircut_cache: cache key -> bitmap reference
    heap,              \* bitmap objects: reference -> content
    store,             \* asset files on disk: path -> file
    held,              \* handle -> bitmap a caller of load_haircut still holds
    last,              \* observation of the last handler call
    region_call,       \* RegionEstimator call: input and output
    transform_call,    \* TransformEngine / Compositor call: input and output
    overlay_call,      \* Compositor call: input and output
    inflight           \* requests accepted whose handler has not run yet

vars == <<active_sessions, session_settings, haircut_cache, heap, store, held,
          last, region_call, transform_call, overlay_call, inflight>>

mainVars == <<active_sessions, session_settings, haircut_cache, heap, store,
              held, last, inflight>>

\* Python's None, for values that are otherwise records.
None == [tag |-> "None"]

Max(a, b) == IF a >= b THEN a ELSE b
Min(a, b) == IF a <= b THEN a ELSE b
Abs(a) == IF a >= 0 THEN a ELSE -a

\* The element of a one-element set.  Only({ e(v) : v \in {value} }) is e
\* for a local variable v that holds value: value is computed once, when v
\* is assigned.
Only(S) == CHOOSE r \in S : TRUE

(***************************************************************************)
(* Double-precision truncation helpers                                     *)
(***************************************************************************)
RECURSIVE Pow2(_)
Pow2(k) == IF k <= 0 THEN 1 ELSE 2 * Pow2(k - 1)

\* 2^e mod m, by repeated squaring
RECURSIVE PowMod(_, _)
PowMod(e, m) ==
    IF e <= 0 THEN 1 % m
    ELSE IF e % 2 = 1 THEN (2 * PowMod(e - 1, m)) % m
    ELSE LET half == PowMod(e \div 2, m) IN (half * half) % m

\* floor(log2(a / b)) for a, b > 0
RECURSIVE FloorLog2(_, _)
FloorLog2(a, b) ==
    IF a >= 2 * b THEN 1 + FloorLog2(a, 2 * b)
    ELSE IF a < b THEN FloorLog2(2 * a, b) - 1
    ELSE 0

\* int(w * (r / d)) as doubles compute it, for naturals w, r and d > 0.
\* q = r / d is rounded to 53 bits (round to nearest, ties to even), the
\* product w * q is rounded again, and int() truncates.  When d does not
\* divide w * r the rounding errors are far smaller than the distance to the
\* next integer; when it does, the result is n = w * r / d unless the quotient
\* was rounded down by more than the product's rounding gives back.
TruncMulDiv(w, r, d) ==
    IF w = 0 \/ r = 0 THEN 0
    ELSE IF (w * r) % d # 0 THEN (w * r) \div d
    ELSE LET n   == (w * r) \div d
             eq  == FloorLog2(r, d)
             s   == 52 - eq
             rem == (r * PowMod(s, d)) % d
             odd == (r * PowMod(s, 2 * d)) % (2 * d) >= d
             up  == 2 * rem > d \/ (2 * rem = d /\ odd)
             E   == FloorLog2(n, 1)
             k   == E - 1 - eq - (IF n = Pow2(E) THEN 1 ELSE 0)
             lhs == IF k >= 0 THEN w * rem ELSE w * rem * Pow2(-k)
             rhs == IF k >= 0 THEN d * Pow2(k) ELSE d
         IN  IF rem = 0 \/ up THEN n
             ELSE IF lhs <= rhs THEN n ELSE n - 1

(***************************************************************************)
(* RegionEstimator: face_utils.py                                          *)
(***************************************************************************)
\* Landmark coordinates are n / LandmarkDen with n in 0 .. LandmarkDen.
LandmarkDen == 4

\* Frame shapes (height, width) the region estimator is run on.
FrameShapes == { [h |-> 480, w |-> 640], [h |-> 48, w |-> 64], [h |-> 240, w |-> 320] }

Coord == 0 .. LandmarkDen

\* The landmarks the pipeline reads: 234 left temple, 454 right temple,
\* 8 between the eyebrows, 10 top of the forehead.
LandmarkSets ==
    { [left_temple  |-> [x |-> a, y |-> d],
       right_temple |-> [x |-> b, y |-> d],
       brow_center  |-> [x |-> a, y |-> d],
       top_forehead |-> [x |-> b, y |-> c]] : a \in Coord, b \in Coord,
                                               c \in Coord, d \in Coord }

\* int(coordinate * size)
ToPixel(n, size) == (n * size) \div LandmarkDen

get_forehead_region(landmarks, image_shape) ==
    LET h == image_shape.h
        w == image_shape.w
        left_x  == ToPixel(landmarks.left_temple.x, w)
        right_x == ToPixel(landmarks.right_temple.x, w)
        forehead_height ==
            (Abs(landmarks.top_forehead.y - landmarks.brow_center.y) * h * 18)
                \div (LandmarkDen * 10)
        top_y    == Max(0, ToPixel(landmarks.top_forehead.y, h) - forehead_height)
        bottom_y == ToPixel(landmarks.brow_center.y, h)
        width  == Max(10, right_x - left_x)
        height == Max(10, bottom_y - top_y)
    IN  [x |-> left_x, y |-> top_y, width |-> width, height |-> height,
         center_x |-> left_x + width \div 2,
         center_y |-> top_y + height \div 2]

get_hair_region(landmarks, image_shape) ==
    Only({
    LET h == image_shape.h
        w == image_shape.w
        x0 == forehead.x - (forehead.width * 4) \div 10
        y0 == forehead.y - (forehead.height * 6) \div 10
        w0 == forehead.width + (forehead.width * 8) \div 10
        h0 == forehead.height + (forehead.height * 12) \div 10
        x == Max(0, x0)
        y == Max(0, y0)
        width  == Min(w - x, w0)
        height == Min(h - y, h0)
    IN  IF forehead = None THEN None
        ELSE [x |-> x, y |-> y, width |-> width, height |-> height,
              center_x |-> x + width \div 2,
              center_y |-> y + height \div 2]
    : forehead \in {get_forehead_region(landmarks, image_shape)} })

(***************************************************************************)
(* TransformEngine: HairOverlay.transform_haircut                          *)
(***************************************************************************)
\* A Python dict with string keys is a function on its keys.
EmptyDict == [k \in {} |-> 0]
Get(d, k, default) == IF k \in DOMAIN d THEN d[k] ELSE default

\* Scales are rationals num / den; the float the code holds is the double
\* nearest to it.  A user scale is 0 or a power of two, so that
\* base_scale * user_scale is exact in doubles.
One == [num |-> 1, den |-> 1]
RatMax(a, b) == IF a.num * b.den >= b.num * a.den THEN a ELSE b
RatMul(a, b) == [num |-> a.num * b.num, den |-> a.den * b.den]

\* np.clip(yaw, -30, 30)
Clip(v, lo, hi) == IF v < lo THEN lo ELSE IF v > hi THEN hi ELSE v

\* |cos| and |sin| of the angle (degrees) as cv2.getRotationMatrix2D computes
\* them, to ten decimal places, each split into two five-digit halves.
Frac == 100000
CosSin(angle) ==
    CASE Abs(angle) = 2  -> [c1 |-> 99939, c0 |-> 8270,  s1 |-> 3489,  s0 |-> 94967]
      [] Abs(angle) = 15 -> [c1 |-> 96592, c0 |-> 58262, s1 |-> 25881, s0 |-> 90451]
      [] Abs(angle) = 16 -> [c1 |-> 96126, c0 |-> 16959, s1 |-> 27563, s0 |-> 73558]
      [] Abs(angle) = 29 -> [c1 |-> 87461, c0 |-> 97071, s1 |-> 48480, s0 |-> 96202]
      [] Abs(angle) = 30 -> [c1 |-> 86602, c0 |-> 54037, s1 |-> 49999, s0 |-> 99999]
      [] Abs(angle) = 31 -> [c1 |-> 85716, c0 |-> 73007, s1 |-> 51503, s0 |-> 80749]
      [] Abs(angle) = 45 -> [c1 |-> 70710, c0 |-> 67811, s1 |-> 70710, s0 |-> 67811]
      [] OTHER           -> [c1 |-> 100000, c0 |-> 0,    s1 |-> 0,     s0 |-> 0]

\* int(p * a + q * b) for a = a1.a0 and b = b1.b0 from the table
TruncCombine(p, a1, a0, q, b1, b0) ==
    ((p * a1 + q * b1) + ((p * a0 + q * b0) \div Frac)) \div Frac

\* lines 194-201: the canvas of the rotated bitmap
RotatedSize(new_width, new_height, rotation_angle) ==
    LET t == CosSin(rotation_angle)
    IN  [w |-> TruncCombine(new_height, t.s1, t.s0, new_width, t.c1, t.c0),
         h |-> TruncCombine(new_height, t.c1, t.c0, new_width, t.s1, t.s0)]

\* RotationAngle reading the pitch (x) instead of the yaw (y)
RotationAngle_pitch(head_pose, adjustments) ==
    LET yaw == IF head_pose # None /\ Get(head_pose, "success", FALSE)
               THEN Clip(Get(Get(head_pose, "euler_angles", EmptyDict), "x", 0), -30, 30)
               ELSE 0
    IN  yaw + Get(adjustments, "rotation", 0)

\* lines 176-184
RotationAngle(head_pose, adjustments) ==
    LET yaw == IF head_pose # None /\ Get(head_pose, "success", FALSE)
               THEN Clip(Get(Get(head_pose, "euler_angles", EmptyDict), "y", 0), -30, 30)
               ELSE 0
    IN  yaw + Get(adjustments, "rotation", 0)

\* EffectiveScale with the smaller axis ratio
EffectiveScale_min(haircut, hair_region, adjustments) ==
    LET base_scale_x == IF haircut.w > 0
                        THEN [num |-> hair_region.width, den |-> haircut.w] ELSE One
        base_scale_y == IF haircut.h > 0
                        THEN [num |-> hair_region.height, den |-> haircut.h] ELSE One
        smaller == IF RatMax(base_scale_x, base_scale_y) = base_scale_x
                   THEN base_scale_y ELSE base_scale_x
    IN  RatMul(smaller, Get(adjustments, "scale", One))

\* lines 163-174
EffectiveScale(haircut, hair_region, adjustments) ==
    LET base_scale_x == IF haircut.w > 0
                        THEN [num |-> hair_region.width, den |-> haircut.w] ELSE One
        base_scale_y == IF haircut.h > 0
                        THEN [num |-> hair_region.height, den |-> haircut.h] ELSE One
    IN  RatMul(RatMax(base_scale_x, base_scale_y), Get(adjustments, "scale", One))

\* NeedsRotation with the threshold included
NeedsRotation_ge(rotation_angle) == Abs(rotation_angle) >= 1

\* A rotation is applied when abs(rotation_angle) > 1.
NeedsRotation(rotation_angle) == Abs(rotation_angle) > 1

\* The bitmap returned: the asset it was made of, its size, and the angle it
\* was rotated by (0 when it is the plain resize).  cv2.resize raises on an
\* empty source; the handler then returns the asset itself.
transform_haircut(haircut, head_pose, hair_region, adjustments) ==
    Only({ Only({
    LET rotated == RotatedSize(new_width, new_height, rotation_angle)
    IN  IF haircut.w = 0 \/ haircut.h = 0 THEN haircut
        ELSE IF NeedsRotation(rotation_angle)
        THEN [haircut EXCEPT !.w = rotated.w, !.h = rotated.h,
                             !.angle = rotation_angle, !.resized = TRUE]
        ELSE [haircut EXCEPT !.w = new_width, !.h = new_height,
                             !.resized = TRUE]
    : new_width  \in {Max(10, TruncMulDiv(haircut.w, scale.num, scale.den))},
      new_height \in {Max(10, TruncMulDiv(haircut.h, scale.num, scale.den))},
      rotation_angle \in {RotationAngle(head_pose, adjustments)} })
    : scale \in {EffectiveScale(haircut, hair_region, adjustments)} })

(***************************************************************************)
(* Compositor: HairOverlay.overlay_haircut, color_match_hair               *)
(*                                                                         *)
(* A frame is its source image (id, size, brightness statistics) and the   *)
(* list of rectangle writes made on it; two frames are equal when both     *)
(* agree.                                                                  *)
(***************************************************************************)
\* OverlayBounds whose bitmap slice is not clipped at the frame's right and
\* bottom edges
OverlayBounds_unclipped(frame, haircut, x, y) ==
    [x1 |-> Max(0, x), y1 |-> Max(0, y),
     x2 |-> Min(frame.w, x + haircut.w), y2 |-> Min(frame.h, y + haircut.h),
     hx1 |-> Max(0, -x), hy1 |-> Max(0, -y),
     hx2 |-> haircut.w, hy2 |-> haircut.h]

\* lines 245-255
OverlayBounds(frame, haircut, x, y) ==
    [x1 |-> Max(0, x), y1 |-> Max(0, y),
     x2 |-> Min(frame.w, x + haircut.w), y2 |-> Min(frame.h, y + haircut.h),
     hx1 |-> Max(0, -x), hy1 |-> Max(0, -y),
     hx2 |-> Min(haircut.w, frame.w - x), hy2 |-> Min(haircut.h, frame.h - y)]

\* line 257
SliceNonEmpty(b) == b.hx2 > b.hx1 /\ b.hy2 > b.hy1

\* lines 293-311: writes the adjusted region when both luminances are positive
color_match_hair(frame, b, haircut) ==
    IF frame.lit /\ frame.blend_lit
    THEN [frame EXCEPT !.writes = Append(@, [stage |-> "color_match",
              x1 |-> b.x1, y1 |-> b.y1, x2 |-> b.x2, y2 |-> b.y2])]
    ELSE frame

\* Placement with the user offsets subtracted
Placement_minus(hair_region, adjustments) ==
    [x |-> hair_region.x - Get(adjustments, "x", 0),
     y |-> hair_region.y - Get(adjustments, "y", 0)]

\* lines 232-240: where the bitmap's top-left corner goes
Placement(hair_region, adjustments) ==
    [x |-> hair_region.x + Get(adjustments, "x", 0),
     y |-> hair_region.y + Get(adjustments, "y", 0)]

\* ResultObject without the copy: the writes go to the caller's frame
ResultObject_alias == "input"

\* line 229: result = frame.copy(); the object the stage writes to
ResultObject == "result"

\* Where an exception may be raised: nowhere, in the blend before its write
\* (lines 259-278), between the blend's write and the colour match (line
\* 284), or inside color_match_hair before its write (lines 297-306).
Raises == {"none", "blend", "after_blend", "color_match"}

\* lines 223-291 with the exception paths of lines 289-291 and 309-311: the
\* frame returned (ret), the content of the caller's frame object after the
\* call (input), and the point that raised ("none" when the call did not get
\* as far as the point given).
overlay_outcome(frame, haircut, hair_region, adjustments, raises) ==
    Only({ Only({
    LET blended == [frame EXCEPT !.writes = Append(@, [stage |-> "blend",
              x1 |-> b.x1, y1 |-> b.y1, x2 |-> b.x2, y2 |-> b.y2,
              hx1 |-> b.hx1, hy1 |-> b.hy1, hx2 |-> b.hx2, hy2 |-> b.hy2,
              bitmap |-> haircut])]
        blends == SliceNonEmpty(b) /\ haircut.channels = 4
        raised == IF ~blends THEN "none"
                  ELSE IF raises \in {"blend", "after_blend"} THEN raises
                  ELSE IF frame.lit /\ raises = "color_match" THEN raises
                  ELSE "none"
        \* the result object when the call returns
        result == IF ~blends \/ raised = "blend" THEN frame
                  ELSE IF raised \in {"after_blend", "color_match"} \/ ~frame.lit
                  THEN blended
                  ELSE color_match_hair(blended, b, haircut)
        input == IF ResultObject = "input" THEN result ELSE frame
    IN  [ret |-> IF raised \in {"blend", "after_blend"} THEN input ELSE result,
         input |-> input, raised |-> raised]
    : b \in {OverlayBounds(frame, haircut, at.x, at.y)} })
    : at \in {Placement(hair_region, adjustments)} })

\* overlay_haircut when nothing raises
overlay_haircut(frame, haircut, hair_region, adjustments) ==
    overlay_outcome(frame, haircut, hair_region, adjustments, "none").ret

(***************************************************************************)
(* AssetCache: HairOverlay.load_haircut, preprocess_haircut                *)
(*                                                                         *)
(* Strings are sequences of tokens, so that an f-string is a               *)
(* concatenation and os.path.basename is the part after the last "/".      *)
(***************************************************************************)
Sep == "/"

RECURSIVE basename(_)
basename(p) ==
    IF p = <<>> THEN <<>>
    ELSE IF p[Len(p)] = Sep THEN <<>>
    ELSE Append(basename(SubSeq(p, 1, Len(p) - 1)), p[Len(p)])

\* f"app/static/haircuts/{gender}/{haircut_name}"
HaircutPath(gender, haircut_name) ==
    <<"app/static/haircuts", Sep>> \o gender \o <<Sep>> \o haircut_name

\* f"{gender}_{os.path.basename(haircut_path)}"
CacheKey(gender, haircut_path) == gender \o <<"_">> \o basename(haircut_path)

\* os.path.exists on the asset store
Exists(files, path) == path \in DOMAIN files

\* Bitmap objects.  The heap maps the reference of every live bitmap to its
\* content.  The object the cache keeps for a key is named after the key (an
\* entry is created once and never replaced); a bitmap returned to a caller
\* takes the first unused slot.  NoRef is None.
MaxHeld == 2
Slots == 1 .. (MaxHeld + 1)
NoRef == None
EntryRef(cache_key) == [entry |-> cache_key]
NewRef(hp) ==
    [slot |-> CHOOSE n \in Slots :
                 /\ [slot |-> n] \notin DOMAIN hp
                 /\ \A m \in Slots : [slot |-> m] \notin DOMAIN hp => n <= m]

\* cv2.imread(path, IMREAD_UNCHANGED) followed by the RGBA normalisation of
\* lines 55-62: a grey image becomes BGRA, a 3-channel image gets an opaque
\* alpha channel, a 4-channel image is kept.
Decode(path, file) ==
    [file |-> path, w |-> file.w, h |-> file.h,
     channels |-> IF file.channels = 1 THEN 4
                  ELSE IF file.channels = 3 THEN 4 ELSE file.channels,
     blurs |-> 0, dirty |-> FALSE, angle |-> 0, resized |-> FALSE]

\* preprocess_haircut leaving the alpha channel as decoded
preprocess_haircut_skip(haircut) == haircut

\* lines 77-89: one Gaussian blur of the alpha channel, in place
preprocess_haircut(haircut) ==
    IF haircut.channels = 4 THEN [haircut EXCEPT !.blurs = @ + 1] ELSE haircut

\* HitContent with the preprocessing run again on the hit
HitContent_reblur(cached) == preprocess_haircut(cached)

\* line 46: what a cache hit hands out, given the cached object
HitContent(cached) == cached

\* HitRef without the copy: the cache entry itself
HitRef_alias(cached_ref, fresh_ref) == cached_ref

\* line 46: the reference a cache hit returns: a fresh copy, not the entry
HitRef(cached_ref, fresh_ref) == fresh_ref

\* The outcome of load_haircut: the reference returned (NoRef for None), the
\* heap and the cache after the call, and whether preprocessing ran.
load_haircut(haircut_path, gender, hp, cache, files) ==
    LET cache_key == CacheKey(gender, haircut_path)
        miss == [ret |-> NoRef, heap |-> hp, cache |-> cache, hit |-> FALSE,
                 preprocessed |-> FALSE]
    IN  IF ~Exists(files, haircut_path) THEN miss
        ELSE IF cache_key \in DOMAIN cache
        THEN LET fresh == NewRef(hp)
                 ret   == HitRef(cache[cache_key], fresh)
                 content == HitContent(hp[cache[cache_key]])
             IN  [ret |-> ret,
                  heap |-> IF ret = fresh THEN hp @@ (fresh :> content) ELSE hp,
                  cache |-> cache, hit |-> TRUE,
                  preprocessed |-> content # hp[cache[cache_key]]]
        ELSE IF ~files[haircut_path].decodable THEN miss
        ELSE LET haircut == preprocess_haircut(Decode(haircut_path, files[haircut_path]))
                 r1  == NewRef(hp)
                 r2  == EntryRef(cache_key)
                 hp2 == hp @@ (r1 :> haircut) @@ (r2 :> haircut)
             IN  [ret |-> r1, heap |-> hp2,
                  cache |-> cache @@ (cache_key :> r2), hit |-> FALSE,
                  preprocessed |-> TRUE]

(***************************************************************************)
(* Pipeline: HairOverlay.apply_haircut                                     *)
(***************************************************************************)
Custom == <<"custom">>

\* ResolvePath with one more fallback, to the male category
ResolvePath_male(haircut_name, gender, files) ==
    LET declared == HaircutPath(gender, haircut_name)
        custom   == HaircutPath(Custom, haircut_name)
        alt_path == HaircutPath(Custom, basename(haircut_name))
        male     == HaircutPath(<<"male">>, basename(haircut_name))
    IN  IF Exists(files, declared) THEN declared
        ELSE IF Exists(files, custom) THEN custom
        ELSE IF Exists(files, alt_path) THEN alt_path
        ELSE IF Exists(files, male) THEN male
        ELSE <<>>

\* lines 96-110: the fallback chain; <<>> when no candidate exists
ResolvePath(haircut_name, gender, files) ==
    LET declared == HaircutPath(gender, haircut_name)
        custom   == HaircutPath(Custom, haircut_name)
        alt_path == HaircutPath(Custom, basename(haircut_name))
    IN  IF Exists(files, declared) THEN declared
        ELSE IF Exists(files, custom) THEN custom
        ELSE IF Exists(files, alt_path) THEN alt_path
        ELSE <<>>

\* lines 135-138
SessionAdjustments(session_id, settings) ==
    IF session_id # "" /\ session_id \in DOMAIN settings
    THEN Get(settings[session_id], "adjustments", EmptyDict)
    ELSE EmptyDict

\* A local bitmap is garbage once the call returns, unless the cache holds it.
Discard(hp, cache, ref) ==
    IF ref = NoRef \/ (\E k \in DOMAIN cache : cache[k] = ref) THEN hp
    ELSE [r \in DOMAIN hp \ {ref} |-> hp[r]]

\* lines 125, 131-151: a face was detected; transform the asset for the hair
\* region and overlay it
TransformAndOverlay(frame, haircut, head_pose, hair_region, adjustments) ==
    IF hair_region = None
    THEN [ret |-> frame, face_detected |-> TRUE, hair_region |-> None,
          transformed |-> None]
    ELSE Only({
         [ret |-> overlay_haircut(frame, transformed, hair_region, adjustments),
          face_detected |-> TRUE, hair_region |-> hair_region,
          transformed |-> transformed]
         : transformed \in {transform_haircut(haircut, head_pose, hair_region,
                                              adjustments)} })

\* lines 125-151: from the landmarks of a detected face to the composited frame
Composite(frame, haircut, landmarks, head_pose, adjustments) ==
    Only({ TransformAndOverlay(frame, haircut, head_pose, hair_region, adjustments)
           : hair_region \in {get_hair_region(landmarks, [h |-> frame.h, w |-> frame.w])} })

\* NoFace with face_detected set before the landmarks are checked
NoFace_flagged(frame) == [ret |-> frame, face_detected |-> TRUE]

\* lines 121-123: no landmarks: the frame as received, face_detected False
NoFace(frame) == [ret |-> frame, face_detected |-> FALSE]

\* The frame and flag returned (ret, face_detected), the heap and cache after
\* the call, and what the call did on the way: whether the detector ran, the
\* path the name resolved to, and the adjustments handed to the transform.
\* landmarks and head_pose are what the detector and the pose solve return
\* for this frame.
apply_haircut(frame, haircut_name, gender, session_id, landmarks, head_pose, hp, cache, files, settings) ==
    Only({
    LET out == [ret |-> frame, face_detected |-> FALSE, heap |-> hp, cache |-> cache,
                haircut_path |-> haircut_path, loaded |-> FALSE, hit |-> FALSE,
                detector_called |-> FALSE, composited |-> FALSE,
                adjustments |-> EmptyDict, transformed |-> None, hair_region |-> None]
    IN  IF haircut_path = <<>> THEN out
        ELSE Only({
        LET after == [out EXCEPT !.heap = Discard(ld.heap, ld.cache, ld.ret),
                                 !.cache = ld.cache, !.hit = ld.hit]
            adjustments == SessionAdjustments(session_id, settings)
        IN  IF ld.ret = NoRef THEN after
            ELSE IF landmarks = None
            THEN [after EXCEPT !.loaded = TRUE, !.detector_called = TRUE,
                               !.ret = NoFace(frame).ret,
                               !.face_detected = NoFace(frame).face_detected]
            ELSE Only({
                 [after EXCEPT !.loaded = TRUE, !.detector_called = TRUE,
                               !.face_detected = done.face_detected, !.ret = done.ret,
                               !.composited = done.hair_region # None,
                               !.adjustments = adjustments,
                               !.transformed = done.transformed,
                               !.hair_region = done.hair_region]
                 : done \in {Composite(frame, ld.heap[ld.ret], landmarks, head_pose,
                                       adjustments)} })
        : ld \in {load_haircut(haircut_path, gender, hp, cache, files)} })
    : haircut_path \in {ResolvePath(haircut_name, gender, files)} })

(***************************************************************************)
(* Handlers of app/main.py                                                 *)
(***************************************************************************)
\* cv2.imencode('.jpg', frame, quality 85) + base64 with the data-URI prefix
EncodeFrame(frame) == [prefix |-> "data:image/jpeg;base64,", jpeg |-> frame]

\* lines 146-207.  frame_data is None (missing), or says whether it decodes
\* and to which image; haircut is <<>> when none is selected.
process_frame(frame_data, gender, haircut, session_id, landmarks, head_pose, hp, cache, files, settings) ==
    LET failed(msg) == [response |-> [success |-> FALSE, error |-> msg],
                        heap |-> hp, cache |-> cache, applied |-> None]
    IN  IF frame_data = None THEN failed("Missing frame data")
        ELSE IF haircut = <<>> THEN failed("No haircut selected")
        ELSE IF ~frame_data.decodes THEN failed("Invalid frame data")
        ELSE Only({
             [response |-> [success |-> TRUE, frame |-> EncodeFrame(applied.ret),
                            face_detected |-> applied.face_detected],
              heap |-> applied.heap, cache |-> applied.cache, applied |-> applied]
             : applied \in {apply_haircut(frame_data.image, haircut, gender, session_id,
                                          landmarks, head_pose, hp, cache, files,
                                          settings)} })

\* StoreAdjustments keeping the fields of the earlier adjustments that the
\* new ones do not name
StoreAdjustments_merge(sessions, session_id, adjustments) ==
    IF session_id \in DOMAIN sessions
    THEN [sessions EXCEPT ![session_id] =
             [adjustments |->
                 [k \in DOMAIN @.adjustments \cup DOMAIN adjustments |->
                     IF k \in DOMAIN adjustments THEN adjustments[k]
                     ELSE @.adjustments[k]]]]
    ELSE sessions @@ (session_id :> [adjustments |-> adjustments])

\* lines 259-263: the session map after an adjustment is stored
StoreAdjustments(sessions, session_id, adjustments) ==
    IF session_id \in DOMAIN sessions
    THEN [sessions EXCEPT ![session_id] = [adjustments |-> adjustments]]
    ELSE sessions @@ (session_id :> [adjustments |-> adjustments])

\* DeleteSession clearing the whole map
DeleteSession_all(sessions, session_id) == EmptyDict

\* SessionRecord reading the record as line 261 creates it, before line 263
\* fills it
SessionRecord_unfilled(sessions, session_id) == EmptyDict

\* line 308: active_sessions[session_id]
SessionRecord(sessions, session_id) == sessions[session_id]

\* line 284: del active_sessions[session_id]
DeleteSession(sessions, session_id) ==
    [k \in DOMAIN sessions \ {session_id} |-> sessions[k]]

(***************************************************************************)
(* Requests                                                                *)
(***************************************************************************)
SessionIds == {"s1", "s2"}
\* a request without a session id (None or "")
NoSession == ""

Full    == [scale |-> [num |-> 2, den |-> 1], rotation |-> 15, x |-> 10, y |-> -5]
Partial == [x |-> 700]
AdjustmentValues == {Full, Partial}

Male == <<"male">>
Genders == {Male, Custom}
HaircutNames == { <<"a.png">>, <<"bad.png">>, <<"zz.png">>, <<"sub", Sep, "c.png">> }

\* The asset store at start-up: a 500x500 BGRA placeholder and an undecodable
\* file under male, and a 3-channel image under custom.
InitialStore ==
    (HaircutPath(Male, <<"a.png">>) :>
        [decodable |-> TRUE, channels |-> 4, w |-> 500, h |-> 500]) @@
    (HaircutPath(Male, <<"bad.png">>) :>
        [decodable |-> FALSE, channels |-> 0, w |-> 0, h |-> 0]) @@
    (HaircutPath(Custom, <<"c.png">>) :>
        [decodable |-> TRUE, channels |-> 3, w |-> 100, h |-> 400])

\* What an upload can put under custom/<uuid>.<ext>
UploadedFiles == { [decodable |-> TRUE, channels |-> 1, w |-> 49, h |-> 49],
                   [decodable |-> FALSE, channels |-> 0, w |-> 0, h |-> 0] }
UploadPath == HaircutPath(Custom, <<"u1.png">>)

Frame(id, h, w, lit) ==
    [id |-> id, h |-> h, w |-> w, lit |-> lit, blend_lit |-> lit, writes |-> <<>>]
Frame1 == Frame("f1", 480, 640, TRUE)

Landmarks(a, b, c, d) ==
    [left_temple  |-> [x |-> a, y |-> d], right_temple |-> [x |-> b, y |-> d],
     brow_center  |-> [x |-> a, y |-> d], top_forehead |-> [x |-> b, y |-> c]]
\* what the detector may return: no face, or the landmarks of a frontal face
DetectorOutcomes == {None, Landmarks(1, 3, 1, 2)}

Pose(pitch, yaw) ==
    [success |-> TRUE, euler_angles |-> [x |-> pitch, y |-> yaw, z |-> 0]]
\* what the pose solve may return
PoseOutcomes == {[success |-> FALSE], Pose(15, 45)}

Idle == [op |-> "none"]

\* A request the server has accepted: the handler it is routed to and its
\* body.
Task(op, session_id, adjustments, data) ==
    [op |-> op, session_id |-> session_id, adjustments |-> adjustments,
     data |-> data]

Request(frame_data, gender, haircut, session_id) ==
    [frame |-> frame_data, gender |-> gender, haircut |-> haircut,
     session_id |-> session_id]

TaskRequests ==
    { Task("get_session", sid, EmptyDict, None) : sid \in SessionIds } \cup
    { Task("reset_session", sid, EmptyDict, None) : sid \in SessionIds } \cup
    { Task("adjust_haircut", sid, adj, None) :
        sid \in SessionIds, adj \in AdjustmentValues } \cup
    { Task("process_frame", sid, EmptyDict,
           Request([decodes |-> TRUE, image |-> Frame1], Male, <<"a.png">>, sid)) :
        sid \in {"s1", NoSession} }

\* How many requests may be in flight at once.
MaxInflight == 2

NoneInFlight == [r \in TaskRequests |-> 0]

RECURSIVE InFlightCount(_, _)
InFlightCount(f, rs) ==
    IF rs = {} THEN 0
    ELSE LET r == CHOOSE x \in rs : TRUE IN f[r] + InFlightCount(f, rs \ {r})

(***************************************************************************)
(* The server: state after import of app.main, and one action per handler  *)
(***************************************************************************)
InitServer ==
    /\ active_sessions = EmptyDict
    /\ session_settings = EmptyDict
    /\ haircut_cache = EmptyDict
    /\ heap = EmptyDict
    /\ store = InitialStore
    /\ held = EmptyDict
    /\ last = Idle
    /\ inflight = NoneInFlight

Init ==
    /\ InitServer
    /\ region_call = None
    /\ transform_call = None
    /\ overlay_call = None

\* POST /api/adjust-haircut: the handler, run from entry to return
adjust_haircut(session_id, adjustments) ==
        /\ active_sessions' =
              IF session_id = NoSession THEN active_sessions
              ELSE StoreAdjustments(active_sessions, session_id, adjustments)
        /\ last' = [op |-> "adjust_haircut", session_id |-> session_id,
                    adjustments |-> adjustments, before |-> active_sessions,
                    response |-> IF session_id = NoSession
                                 THEN [success |-> FALSE, error |-> "Session ID required"]
                                 ELSE [success |-> TRUE, message |-> "Adjustments saved"]]
        /\ UNCHANGED <<session_settings, haircut_cache, heap, store, held,
                       region_call, transform_call, overlay_call>>

\* POST /api/reset-session: the handler, run from entry to return
reset_session(session_id) ==
        LET found == session_id # NoSession /\ session_id \in DOMAIN active_sessions
        IN  /\ active_sessions' = IF found THEN DeleteSession(active_sessions, session_id)
                                  ELSE active_sessions
            /\ last' = [op |-> "reset_session", session_id |-> session_id,
                        before |-> active_sessions,
                        response |-> IF found
                                     THEN [success |-> TRUE,
                                           message |-> "Session reset successfully"]
                                     ELSE [success |-> FALSE, error |-> "Session not found"]]
            /\ UNCHANGED <<session_settings, haircut_cache, heap, store, held,
                           region_call, transform_call, overlay_call>>

\* GET /api/session/{session_id}: the handler, run from entry to return
get_session(session_id) ==
        /\ last' = [op |-> "get_session", session_id |-> session_id,
                    response |-> IF session_id \in DOMAIN active_sessions
                                 THEN [success |-> TRUE,
                                       session |-> SessionRecord(active_sessions,
                                                                 session_id)]
                                 ELSE [success |-> FALSE, error |-> "Session not found"]]
        /\ UNCHANGED <<active_sessions, session_settings, haircut_cache, heap, store,
                       held, region_call, transform_call, overlay_call>>

\* The request bodies: one without a frame, one without a haircut, one whose
\* frame does not decode, and complete ones.
Requests ==
    { Request(None, Male, <<"a.png">>, NoSession),
      Request([decodes |-> TRUE, image |-> Frame1], Male, <<>>, NoSession),
      Request([decodes |-> FALSE], Male, <<"a.png">>, NoSession) } \cup
    { Request([decodes |-> TRUE, image |-> Frame1], g, n, sid) :
        g \in Genders, n \in HaircutNames, sid \in SessionIds \cup {NoSession} }

\* Whether the call gets as far as the detector (line 119)
ReachesDetector(data, hp, cache, files) ==
    /\ data.frame # None /\ data.haircut # <<>> /\ data.frame.decodes
    /\ ResolvePath(data.haircut, data.gender, files) # <<>>
    /\ load_haircut(ResolvePath(data.haircut, data.gender, files), data.gender,
                    hp, cache, files).ret # NoRef

\* POST /api/process-frame.  The detector's and the pose solve's answers are
\* drawn when they are called.
HandleProcessFrame(data) ==
    \E landmarks \in IF ReachesDetector(data, heap, haircut_cache, store)
                     THEN DetectorOutcomes ELSE {None} :
    \E head_pose \in IF landmarks # None THEN PoseOutcomes ELSE {[success |-> FALSE]} :
    \E r \in { process_frame(data.frame, data.gender, data.haircut, data.session_id,
                             landmarks, head_pose, heap, haircut_cache, store,
                             session_settings) } :
            /\ heap' = r.heap
            /\ haircut_cache' = r.cache
            /\ last' = [op |-> "process_frame",
                        frame |-> IF data.frame # None /\ data.frame.decodes
                                  THEN data.frame.image ELSE None,
                        gender |-> data.gender, haircut |-> data.haircut,
                        session_id |-> data.session_id, landmarks |-> landmarks,
                        stored |-> active_sessions,
                        response |-> r.response, applied |-> r.applied]
            /\ UNCHANGED <<active_sessions, session_settings, store, held,
                           region_call, transform_call, overlay_call>>

\* The handlers called with any request, one at a time
AdjustHaircut ==
    \E session_id \in SessionIds \cup {NoSession}, adjustments \in AdjustmentValues :
        adjust_haircut(session_id, adjustments) /\ UNCHANGED inflight

ResetSession ==
    \E session_id \in SessionIds \cup {NoSession} :
        reset_session(session_id) /\ UNCHANGED inflight

GetSession ==
    \E session_id \in SessionIds :
        get_session(session_id) /\ UNCHANGED inflight

ProcessFrame ==
    \E data \in Requests : HandleProcessFrame(data) /\ UNCHANGED inflight

\* POST /api/upload-haircut: the file is written under custom/ with a fresh name
UploadHaircut ==
    \E file \in UploadedFiles :
        /\ ~Exists(store, UploadPath)
        /\ store' = store @@ (UploadPath :> file)
        /\ last' = [op |-> "upload_haircut",
                    response |-> [success |-> TRUE, filename |-> <<"u1.png">>]]
        /\ UNCHANGED <<active_sessions, session_settings, haircut_cache, heap, held,
                       region_call, transform_call, overlay_call, inflight>>

Next ==
    \/ AdjustHaircut
    \/ ResetSession
    \/ GetSession
    \/ ProcessFrame

Spec == Init /\ [][Next]_vars

(***************************************************************************)
(* The asset cache used directly: callers of HairOverlay.load_haircut that *)
(* keep the bitmap they get, may write into it, and drop it; uploads add   *)
(* files to the store.                                                     *)
(***************************************************************************)
LoadPaths == { HaircutPath(Male, <<"a.png">>), HaircutPath(Male, <<"bad.png">>),
               HaircutPath(Custom, <<"c.png">>), HaircutPath(Male, <<"zz.png">>),
               UploadPath }

Handles == 1 .. MaxHeld
FreeHandle(h) == CHOOSE i \in Handles \ DOMAIN h : \A j \in Handles \ DOMAIN h : i <= j

\* A caller calls load_haircut and keeps what it gets.
LoadHaircut ==
    \E haircut_path \in LoadPaths, gender \in Genders :
    \E ld \in { load_haircut(haircut_path, gender, heap, haircut_cache, store) } :
            /\ Handles \ DOMAIN held # {}
            /\ heap' = ld.heap
            /\ haircut_cache' = ld.cache
            /\ held' = IF ld.ret = NoRef THEN held
                       ELSE held @@
                            (FreeHandle(held) :>
                                [ref |-> ld.ret, haircut_path |-> haircut_path,
                                 gender |-> gender, content |-> ld.heap[ld.ret],
                                 hit |-> ld.hit, written |-> FALSE])
            /\ last' = [op |-> "load_haircut", haircut_path |-> haircut_path,
                        gender |-> gender, ret |-> ld.ret, hit |-> ld.hit,
                        preprocessed |-> ld.preprocessed]
            /\ UNCHANGED <<active_sessions, session_settings, store,
                           region_call, transform_call, overlay_call, inflight>>

\* A caller writes into the bitmap it was given.
MutateBitmap ==
    \E i \in DOMAIN held :
        /\ ~held[i].written
        /\ heap' = [heap EXCEPT ![held[i].ref].dirty = TRUE]
        /\ held' = [held EXCEPT ![i].written = TRUE]
        /\ last' = [op |-> "mutate", handle |-> i]
        /\ UNCHANGED <<active_sessions, session_settings, haircut_cache, store,
                       region_call, transform_call, overlay_call, inflight>>

\* A caller drops its bitmap; the object dies with its last reference.
Release ==
    \E i \in DOMAIN held :
        /\ heap' = IF \E j \in DOMAIN held \ {i} : held[j].ref = held[i].ref
                   THEN heap ELSE Discard(heap, haircut_cache, held[i].ref)
        /\ held' = [j \in DOMAIN held \ {i} |-> held[j]]
        /\ last' = [op |-> "release", handle |-> i]
        /\ UNCHANGED <<active_sessions, session_settings, haircut_cache, store,
                       region_call, transform_call, overlay_call, inflight>>

NextCache ==
    \/ LoadHaircut
    \/ MutateBitmap
    \/ Release
    \/ UploadHaircut

SpecCache == Init /\ [][NextCache]_vars

(***************************************************************************)
(* The asset store changing under the cache.  Files are placed in the      *)
(* category folders while the server runs ("Place your haircut PNG images  *)
(* in the appropriate folders", legendrun.py), and a request names its     *)
(* asset by a relative name that may carry a directory part.               *)
(***************************************************************************)
\* Files that may be placed in the store, each at its own path and each of
\* its own size, so that the content of one is never the content of another.
InstallableAssets ==
    (HaircutPath(Male, <<"c.png">>) :>
        [decodable |-> TRUE, channels |-> 4, w |-> 300, h |-> 200]) @@
    (HaircutPath(Custom, <<"sub", Sep, "c.png">>) :>
        [decodable |-> TRUE, channels |-> 4, w |-> 120, h |-> 80]) @@
    (HaircutPath(Male, <<"zz.png">>) :>
        [decodable |-> TRUE, channels |-> 1, w |-> 64, h |-> 64])

\* A file is placed in a category folder.
InstallAsset ==
    \E path \in DOMAIN InstallableAssets \ DOMAIN store :
        /\ store' = store @@ (path :> InstallableAssets[path])
        /\ last' = [op |-> "install_asset", path |-> path]
        /\ UNCHANGED <<active_sessions, session_settings, haircut_cache, heap, held,
                       region_call, transform_call, overlay_call, inflight>>

\* The names a request may carry
StoreNames == { <<"c.png">>, <<"sub", Sep, "c.png">>, <<"zz.png">> }

\* apply_haircut up to the load (lines 96-112): the fallback chain resolves
\* the name, load_haircut is called on the resolved path, and the bitmap it
\* returns is local to the call.
ResolveAndLoad ==
    \E haircut_name \in StoreNames, gender \in Genders :
    \E haircut_path \in { ResolvePath(haircut_name, gender, store) } :
        /\ haircut_path # <<>>
        /\ \E ld \in { load_haircut(haircut_path, gender, heap, haircut_cache, store) } :
              /\ heap' = Discard(ld.heap, ld.cache, ld.ret)
              /\ haircut_cache' = ld.cache
              /\ last' = [op |-> "resolve_and_load", haircut_name |-> haircut_name,
                          gender |-> gender, haircut_path |-> haircut_path,
                          ret |-> ld.ret, hit |-> ld.hit,
                          content |-> IF ld.ret = NoRef THEN None
                                      ELSE ld.heap[ld.ret]]
        /\ UNCHANGED <<active_sessions, session_settings, store, held,
                       region_call, transform_call, overlay_call, inflight>>

NextStore ==
    \/ InstallAsset
    \/ ResolveAndLoad

SpecStore == Init /\ [][NextStore]_vars

(***************************************************************************)
(* Requests in flight.  Every handler of app/main.py that touches the      *)
(* session map or the pipeline is a coroutine (async def) without an await *)
(* in its body, and uvicorn runs the application on one event loop: a      *)
(* handler runs from entry to return before the next one starts.  Requests *)
(* that are in flight together are served in any order.                    *)
(***************************************************************************)
\* The server accepts a request; its handler is scheduled on the event loop.
Accept ==
    \E r \in TaskRequests :
        /\ InFlightCount(inflight, TaskRequests) < MaxInflight
        /\ inflight' = [inflight EXCEPT ![r] = @ + 1]
        /\ last' = [op |-> "accept", request |-> r]
        /\ UNCHANGED <<active_sessions, session_settings, haircut_cache, heap,
                       store, held, region_call, transform_call, overlay_call>>

\* The event loop runs the handler of one request in flight.
Serve(r) ==
    /\ inflight[r] > 0
    /\ inflight' = [inflight EXCEPT ![r] = @ - 1]
    /\ CASE r.op = "get_session" -> get_session(r.session_id)
         [] r.op = "reset_session" -> reset_session(r.session_id)
         [] r.op = "adjust_haircut" -> adjust_haircut(r.session_id, r.adjustments)
         [] r.op = "process_frame" -> HandleProcessFrame(r.data)

ServeGetSession == \E r \in TaskRequests : r.op = "get_session" /\ Serve(r)
ServeResetSession == \E r \in TaskRequests : r.op = "reset_session" /\ Serve(r)
ServeAdjustHaircut == \E r \in TaskRequests : r.op = "adjust_haircut" /\ Serve(r)
ServeProcessFrame == \E r \in TaskRequests : r.op = "process_frame" /\ Serve(r)

NextTasks ==
    \/ Accept
    \/ ServeGetSession
    \/ ServeResetSession
    \/ ServeAdjustHaircut
    \/ ServeProcessFrame

SpecTasks == Init /\ [][NextTasks]_vars

(***************************************************************************)
(* RegionEstimator on its own: every landmark set on every frame shape     *)
(***************************************************************************)
InitRegion ==
    /\ InitServer
    /\ region_call \in { [landmarks |-> l, image_shape |-> sh, done |-> FALSE,
                          forehead |-> None, hair_region |-> None] :
                         l \in LandmarkSets, sh \in FrameShapes }
    /\ transform_call = None
    /\ overlay_call = None

EstimateRegion ==
    /\ ~region_call.done
    /\ region_call' =
          [region_call EXCEPT
              !.done = TRUE,
              !.forehead = get_forehead_region(region_call.landmarks,
                                               region_call.image_shape),
              !.hair_region = get_hair_region(region_call.landmarks,
                                              region_call.image_shape)]
    /\ UNCHANGED <<mainVars, transform_call, overlay_call>>

NextRegion == EstimateRegion

SpecRegion == InitRegion /\ [][NextRegion]_vars

(***************************************************************************)
(* TransformEngine and Compositor on their own: the tail of apply_haircut  *)
(* for a given asset, pose, hair region and adjustments                    *)
(***************************************************************************)
Asset(w, h) ==
    [file |-> <<"asset">>, w |-> w, h |-> h, channels |-> 4, blurs |-> 1,
     dirty |-> FALSE, angle |-> 0, resized |-> FALSE]
Assets == { Asset(500, 500), Asset(100, 400), Asset(11, 13), Asset(1000, 20),
            Asset(77, 77) }

Region(x, y, width, height) ==
    [x |-> x, y |-> y, width |-> width, height |-> height,
     center_x |-> x + width \div 2, center_y |-> y + height \div 2]
HairRegions == { Region(200, 50, 240, 120), Region(636, 474, 4, 6),
                 Region(0, 0, 15, 15), Region(300, 100, 10, 10) }

HeadPoses == { None, [success |-> FALSE], Pose(15, 0), Pose(0, 1), Pose(0, 45),
               Pose(0, -45) }

Defaults == [scale |-> One, rotation |-> 0, x |-> 0, y |-> 0]
Adjustments == { EmptyDict, Defaults, Full, Partial,
                 [scale |-> [num |-> 1, den |-> 2], rotation |-> 1] }

InitTransform ==
    /\ InitServer
    /\ region_call = None
    /\ transform_call \in { [frame |-> Frame1, haircut |-> a, head_pose |-> p,
                             hair_region |-> r, adjustments |-> adj,
                             pc |-> "start", transformed |-> None, result |-> None] :
                            a \in Assets, p \in HeadPoses, r \in HairRegions,
                            adj \in Adjustments }
    /\ overlay_call = None

\* transform_haircut on the drawn inputs
Transform ==
    /\ transform_call.pc = "start"
    /\ transform_call' =
          [transform_call EXCEPT
              !.pc = "transformed",
              !.transformed = transform_haircut(transform_call.haircut,
                                  transform_call.head_pose, transform_call.hair_region,
                                  transform_call.adjustments)]
    /\ UNCHANGED <<mainVars, region_call, overlay_call>>

\* lines 131-151 of apply_haircut on the drawn inputs
Place ==
    /\ transform_call.pc = "transformed"
    /\ transform_call' =
          [transform_call EXCEPT
              !.pc = "placed",
              !.result = TransformAndOverlay(transform_call.frame,
                             transform_call.haircut, transform_call.head_pose,
                             transform_call.hair_region, transform_call.adjustments)]
    /\ UNCHANGED <<mainVars, region_call, overlay_call>>

NextTransform == Transform \/ Place

SpecTransform == InitTransform /\ [][NextTransform]_vars

(***************************************************************************)
(* Compositor on its own                                                   *)
(***************************************************************************)
Frames == { Frame1, Frame("f2", 48, 64, FALSE) }
Bitmaps == { Asset(10, 10), Asset(240, 240), Asset(700, 500) }
Offsets == { -1000, -10, 0, 700 }
Corners == { Region(0, 0, 10, 10), Region(200, 50, 240, 120),
             Region(630, 470, 10, 10) }

InitOverlay ==
    /\ InitServer
    /\ region_call = None
    /\ transform_call = None
    /\ overlay_call \in { [frame |-> f, haircut |-> b, hair_region |-> r,
                           adjustments |-> [x |-> dx, y |-> dy],
                           done |-> FALSE, result |-> None, input |-> f,
                           raised |-> "none"] :
                          f \in Frames, b \in Bitmaps, r \in Corners,
                          dx \in Offsets, dy \in Offsets }

\* overlay_haircut on the drawn inputs; an exception may be raised on the way
Overlay ==
    /\ ~overlay_call.done
    /\ \E raises \in Raises :
       \E out \in { overlay_outcome(overlay_call.frame, overlay_call.haircut,
                                    overlay_call.hair_region,
                                    overlay_call.adjustments, raises) } :
          overlay_call' =
              [overlay_call EXCEPT !.done = TRUE, !.result = out.ret,
                                   !.input = out.input, !.raised = out.raised]
    /\ UNCHANGED <<mainVars, region_call, transform_call>>

NextOverlay == Overlay

SpecOverlay == InitOverlay /\ [][NextOverlay]_vars

(***************************************************************************)
(* Properties                                                              *)
(***************************************************************************)
Processed == last.op = "process_frame" /\ last.applied # None

\* C1: once adjustments A are stored for session id s (and s was not reset),
\* every process-frame call made with s hands A to the transform and the
\* overlay; the defaults are used only when no record exists for s.
C1_StoredAdjustmentsAreUsed ==
    (Processed /\ last.applied.composited) =>
        last.applied.adjustments =
            IF last.session_id # NoSession /\ last.session_id \in DOMAIN last.stored
            THEN last.stored[last.session_id].adjustments
            ELSE EmptyDict

\* C2: when the asset loads and the detector returns no landmarks,
\* apply_haircut returns the input frame itself and face_detected = False.
C2_NoLandmarksPassThrough ==
    (Processed /\ last.applied.loaded /\ last.landmarks = None) =>
        /\ last.applied.ret = last.frame
        /\ last.applied.face_detected = FALSE

C2_Witness ==
    /\ Processed /\ last.applied.loaded /\ last.applied.detector_called
    /\ last.landmarks = None
    /\ last.response.success /\ last.response.face_detected = FALSE

\* No file under the declared category, under custom, or under custom by
\* basename.
Unresolvable(haircut_name, gender, files) ==
    /\ ~Exists(files, HaircutPath(gender, haircut_name))
    /\ ~Exists(files, HaircutPath(Custom, haircut_name))
    /\ ~Exists(files, HaircutPath(Custom, basename(haircut_name)))

\* C3: when the name resolves to no file in the three lookups, apply_haircut
\* returns the input frame unchanged and never invokes the detector.
C3_NotFoundPassThrough ==
    (Processed /\ Unresolvable(last.haircut, last.gender, store)) =>
        /\ last.applied.ret = last.frame
        /\ ~last.applied.detector_called
        /\ ~last.applied.face_detected

C3_Witness ==
    /\ Processed /\ Unresolvable(last.haircut, last.gender, store)
    /\ last.haircut = <<"a.png">> /\ last.gender = Custom
    /\ last.applied.haircut_path = <<>>

\* C4: when the asset file is found but cannot be loaded or decoded,
\* process-frame reports a failure with an error and no frame, unlike the
\* no-face outcome (success with a frame and face_detected false).
C4_LoadFailureIsStructured ==
    (Processed /\ last.applied.haircut_path # <<>> /\ ~last.applied.loaded) =>
        /\ last.response.success = FALSE
        /\ "error" \in DOMAIN last.response
        /\ "frame" \notin DOMAIN last.response

\* C5: for landmarks in [0,1]x[0,1] and any frame size, the hair region lies
\* inside the frame and is at least 10 wide and 10 high.
C5_HairRegionInsideAndAtLeast10 ==
    region_call.done =>
        LET r == region_call.hair_region
            shape == region_call.image_shape
        IN  /\ 0 <= r.x /\ 0 <= r.y
            /\ r.x + r.width <= shape.w /\ r.y + r.height <= shape.h
            /\ r.width >= 10 /\ r.height >= 10

\* The placed rectangle [x, x+w) x [y, y+h) and the frame share no pixel.
ZeroOverlap(frame, bitmap, x, y) ==
    \/ Min(frame.w, x + bitmap.w) <= Max(0, x)
    \/ Min(frame.h, y + bitmap.h) <= Max(0, y)

OverlayX == overlay_call.hair_region.x + overlay_call.adjustments.x
OverlayY == overlay_call.hair_region.y + overlay_call.adjustments.y

\* C6: when the placed bitmap rectangle has no overlap with the frame,
\* overlay_haircut returns a frame equal to the input frame.
C6_NoOverlapNoChange ==
    (overlay_call.done /\
     ZeroOverlap(overlay_call.frame, overlay_call.haircut, OverlayX, OverlayY)) =>
        overlay_call.result = overlay_call.frame

C6_Witness ==
    /\ overlay_call.done
    /\ ZeroOverlap(overlay_call.frame, overlay_call.haircut, OverlayX, OverlayY)
    /\ OverlayX + overlay_call.haircut.w = 0
    /\ OverlayY >= 0 /\ OverlayY < overlay_call.frame.h

SameCall(a, b) == a.haircut_path = b.haircut_path /\ a.gender = b.gender

\* C7: two load_haircut calls with the same arguments return the same pixel
\* content, and writing into a returned bitmap changes neither the cache entry
\* nor a bitmap returned by another call.
C7_LoadsAgreeAndAreIndependent ==
    /\ \A i \in DOMAIN held : \A j \in DOMAIN held :
          SameCall(held[i], held[j]) => held[i].content = held[j].content
    /\ \A k \in DOMAIN haircut_cache : ~heap[haircut_cache[k]].dirty
    /\ \A i \in DOMAIN held : heap[held[i].ref].dirty => held[i].written

C7_Witness ==
    \E i \in DOMAIN held : \E j \in DOMAIN held :
        /\ SameCall(held[i], held[j])
        /\ ~held[i].hit /\ held[j].hit
        /\ held[j].written /\ heap[held[j].ref].dirty
        /\ ~heap[held[i].ref].dirty

\* C8: the alpha blur is applied once to the content of each cache entry, when
\* it is inserted; a hit runs no preprocessing and returns content blurred
\* exactly once.
C8_BlurredOnceAtInsertion ==
    /\ \A k \in DOMAIN haircut_cache : heap[haircut_cache[k]].blurs = 1
    /\ \A i \in DOMAIN held : held[i].content.blurs = 1
    /\ (last.op = "load_haircut" /\ last.ret # NoRef) =>
          (last.preprocessed <=> ~last.hit)

C8_Witness ==
    /\ last.op = "load_haircut" /\ last.hit /\ ~last.preprocessed
    /\ \E i \in DOMAIN held : held[i].hit /\ held[i].content.blurs = 1
    /\ \E i \in DOMAIN held : ~held[i].hit

\* max(region.width / asset.width, region.height / asset.height)
CoveringScale(asset, region) ==
    RatMax([num |-> region.width, den |-> asset.w],
           [num |-> region.height, den |-> asset.h])

\* scale 1.0, rotation 0 and a solved pose with yaw 0
C9_Case ==
    /\ transform_call.pc # "start"
    /\ Get(transform_call.adjustments, "scale", One) = One
    /\ Get(transform_call.adjustments, "rotation", 0) = 0
    /\ transform_call.head_pose # None
    /\ Get(transform_call.head_pose, "success", FALSE)
    /\ transform_call.head_pose.euler_angles.y = 0

\* C9 as stated: the bitmap is asset width x s by asset height x s, truncated.
C9_SizeIsTruncatedResize ==
    C9_Case =>
        LET s == CoveringScale(transform_call.haircut, transform_call.hair_region)
        IN  /\ transform_call.transformed.w =
                  TruncMulDiv(transform_call.haircut.w, s.num, s.den)
            /\ transform_call.transformed.h =
                  TruncMulDiv(transform_call.haircut.h, s.num, s.den)

\* C9 amended: with scale 1.0, rotation 0 and yaw 0 the bitmap is
\* max(10, int(asset width x s)) by max(10, int(asset height x s)), with no
\* enlargement from rotation padding.
C9_SizeIsTruncatedResizeAtLeast10 ==
    C9_Case =>
        LET s == CoveringScale(transform_call.haircut, transform_call.hair_region)
        IN  /\ transform_call.transformed.w =
                  Max(10, TruncMulDiv(transform_call.haircut.w, s.num, s.den))
            /\ transform_call.transformed.h =
                  Max(10, TruncMulDiv(transform_call.haircut.h, s.num, s.den))
            /\ transform_call.transformed.angle = 0

C9_Witness ==
    /\ C9_Case
    /\ transform_call.head_pose.euler_angles.x # 0
    /\ transform_call.transformed.w > 10
    /\ transform_call.transformed.h = 10

\* 640x480 frame, near-frontal face, hair region (200, 50, 240, 120),
\* 500x500 asset, adjustments {scale 1.0, rotation 0, x 0, y 0}
C10_Scenario ==
    /\ transform_call.pc = "placed"
    /\ transform_call.frame.w = 640 /\ transform_call.frame.h = 480
    /\ transform_call.hair_region = Region(200, 50, 240, 120)
    /\ transform_call.haircut.w = 500 /\ transform_call.haircut.h = 500
    /\ transform_call.adjustments = Defaults
    /\ transform_call.head_pose # None
    /\ Get(transform_call.head_pose, "success", FALSE)
    /\ Abs(transform_call.head_pose.euler_angles.y) <= 1

C10_Placed(width, height) ==
    LET s == EffectiveScale(transform_call.haircut, transform_call.hair_region,
                            transform_call.adjustments)
        out == transform_call.result
    IN  /\ s.num * 100 = 48 * s.den
        /\ out.transformed.w = width /\ out.transformed.h = height
        /\ Len(out.ret.writes) >= 1
        /\ out.ret.writes[1].stage = "blend"
        /\ out.ret.writes[1].x1 = 200 /\ out.ret.writes[1].y1 = 50
        /\ out.ret.writes[1].hx1 = 0 /\ out.ret.writes[1].hy1 = 0
        /\ out.face_detected

\* C10 as stated: the covering scale is 0.48, the resized asset is 288x288,
\* it is composited with its top-left corner at (200, 50), face_detected.
C10_Resized288 == C10_Scenario => C10_Placed(288, 288)

\* C10 amended: the covering scale is 0.48, the resized asset is 240x240
\* (500 x 0.48), it is composited with its top-left corner at (200, 50), and
\* face_detected is true.
C10_Resized240 == C10_Scenario => C10_Placed(240, 240)

C10_Witness ==
    /\ C10_Scenario
    /\ transform_call.result.ret.writes[1].x2 = 440
    /\ transform_call.result.ret.writes[1].y2 = 290

\* C11: after reset(s) the record for s is absent; a reset of an id with no
\* record (a second reset, a never-created id, no id) leaves the session map
\* unchanged and reports not-found; a reset of s never changes the record of
\* another session id.
C11_ResetIsIdempotent ==
    last.op = "reset_session" =>
        LET s == last.session_id
            found == s \in DOMAIN last.before
        IN  /\ s \notin DOMAIN active_sessions
            /\ last.response.success <=> found
            /\ ~found => /\ active_sessions = last.before
                         /\ last.response.error = "Session not found"
            /\ \A t \in SessionIds \ {s} :
                  /\ t \in DOMAIN active_sessions <=> t \in DOMAIN last.before
                  /\ t \in DOMAIN last.before =>
                        active_sessions[t] = last.before[t]

C11_Witness ==
    /\ last.op = "reset_session" /\ last.session_id = "s1"
    /\ last.response.success
    /\ "s1" \in DOMAIN last.before /\ "s1" \notin DOMAIN active_sessions
    /\ "s2" \in DOMAIN active_sessions /\ active_sessions["s2"].adjustments = Full

\* C12: a step changes the record of session id s only when it is an adjust
\* for s, after which the record is exactly the adjustments supplied, or a
\* reset of s, after which it is absent; process-frame, get-session, and an
\* adjust without a session id change nothing.  Hence the record of s is
\* always the value of the most recent adjust for s since its last reset.
C12_RecordIsLastAdjust ==
    [][\A s \in SessionIds :
          IF last'.op = "adjust_haircut" /\ last'.session_id = s
          THEN /\ s \in DOMAIN active_sessions'
               /\ active_sessions'[s] = [adjustments |-> last'.adjustments]
          ELSE IF last'.op = "reset_session" /\ last'.session_id = s
          THEN s \notin DOMAIN active_sessions'
          ELSE /\ s \in DOMAIN active_sessions' <=> s \in DOMAIN active_sessions
               /\ s \in DOMAIN active_sessions =>
                     active_sessions'[s] = active_sessions[s]]_vars

C12_Witness ==
    /\ last.op = "adjust_haircut" /\ last.session_id = "s1"
    /\ last.adjustments = Partial
    /\ "s1" \in DOMAIN last.before /\ last.before["s1"].adjustments = Full
    /\ active_sessions["s1"] = [adjustments |-> Partial]

\* C13: for landmarks in [0,1]x[0,1] and any frame size, the forehead region
\* lies inside the frame and is at least 10 wide and 10 high.
C13_ForeheadInsideAndAtLeast10 ==
    region_call.done =>
        LET r == region_call.forehead
            shape == region_call.image_shape
        IN  /\ 0 <= r.x /\ 0 <= r.y
            /\ r.x + r.width <= shape.w /\ r.y + r.height <= shape.h
            /\ r.width >= 10 /\ r.height >= 10

\* clamp(yaw, -30, 30) + adjustments.rotation, with yaw = eulerAngles.y of a
\* solved pose and 0 for a failed or missing pose
C14_Angle ==
    LET p == transform_call.head_pose
        adj == transform_call.adjustments
        yaw == IF p # None /\ p.success THEN p.euler_angles.y ELSE 0
        clamped == IF yaw < -30 THEN -30 ELSE IF yaw > 30 THEN 30 ELSE yaw
    IN  clamped + (IF "rotation" \in DOMAIN adj THEN adj.rotation ELSE 0)

\* the plain resize of the asset for the region and the adjustments
C14_Resize ==
    LET s == EffectiveScale(transform_call.haircut, transform_call.hair_region,
                            transform_call.adjustments)
    IN  [w |-> Max(10, TruncMulDiv(transform_call.haircut.w, s.num, s.den)),
         h |-> Max(10, TruncMulDiv(transform_call.haircut.h, s.num, s.den))]

\* C14: the rotation angle is clamp(yaw, -30, 30) + adjustments.rotation (yaw
\* 0 for a failed or missing pose); the bitmap is rotated by it, on the canvas
\* of the rotated resize, exactly when its absolute value is greater than 1,
\* and is the plain resize otherwise.
C14_RotatedIffAngleAbove1 ==
    transform_call.pc # "start" =>
        LET out == transform_call.transformed
        IN  IF C14_Angle > 1 \/ C14_Angle < -1
            THEN /\ out.angle = C14_Angle
                 /\ [w |-> out.w, h |-> out.h] =
                       RotatedSize(C14_Resize.w, C14_Resize.h, C14_Angle)
            ELSE /\ out.angle = 0
                 /\ out.w = C14_Resize.w /\ out.h = C14_Resize.h

C14_Witness ==
    /\ transform_call.pc # "start"
    /\ transform_call.head_pose = Pose(0, 45)
    /\ Get(transform_call.adjustments, "rotation", 0) = 1
    /\ transform_call.transformed.angle = 31
    /\ transform_call.transformed.w > C14_Resize.w

\* C15: for an asset and a hair region of positive size, with scale 1.0 and
\* no rotation, the bitmap returned by transform_haircut is at least as wide
\* and as high as the hair region.
C15_TransformedCoversRegion ==
    (/\ transform_call.pc # "start"
     /\ transform_call.haircut.w > 0 /\ transform_call.haircut.h > 0
     /\ transform_call.hair_region.width > 0
     /\ transform_call.hair_region.height > 0
     /\ Get(transform_call.adjustments, "scale", One) = One
     /\ C14_Angle = 0) =>
        /\ transform_call.transformed.w >= transform_call.hair_region.width
        /\ transform_call.transformed.h >= transform_call.hair_region.height

\* C16: when overlay_haircut fails in the blend stage it returns the input
\* frame, when color_match_hair fails it returns the fully blended frame,
\* never a partially written one; on every path the caller's frame object
\* holds what it held before the call.
C16_FailureReturnsPreStageFrame ==
    overlay_call.done =>
        /\ overlay_call.input = overlay_call.frame
        /\ overlay_call.raised \in {"blend", "after_blend"} =>
              overlay_call.result = overlay_call.frame
        /\ overlay_call.raised = "color_match" =>
              /\ Len(overlay_call.result.writes) = 1
              /\ overlay_call.result.writes[1].stage = "blend"
              /\ [overlay_call.result EXCEPT !.writes = <<>>] = overlay_call.frame
        /\ overlay_call.raised = "none" =>
              overlay_call.result =
                  overlay_haircut(overlay_call.frame, overlay_call.haircut,
                                  overlay_call.hair_region, overlay_call.adjustments)

C16_Witness ==
    /\ overlay_call.done /\ overlay_call.raised = "color_match"
    /\ Len(overlay_call.result.writes) = 1
    /\ overlay_call.input = overlay_call.frame
    /\ overlay_call.result # overlay_call.frame

\* a bitmap that is BGRA and has had its alpha channel blurred once
FullyPrepared(bitmap) == bitmap.channels = 4 /\ bitmap.blurs = 1 /\ ~bitmap.dirty

\* C17: with several requests for one cache key in flight, in every order of
\* service every cache entry is fully normalized and preprocessed, an entry
\* once inserted keeps its content (a later insert for the key, if any,
\* carries the same content), and the bitmap a request composites is fully
\* normalized and preprocessed.
C17_ConcurrentMissesLeaveOneCompleteEntry ==
    /\ [](\A k \in DOMAIN haircut_cache : FullyPrepared(heap[haircut_cache[k]]))
    /\ []((last.op = "process_frame" /\ last.applied # None
            /\ last.applied.composited) =>
              /\ last.applied.transformed.channels = 4
              /\ last.applied.transformed.blurs = 1)
    /\ [][\A k \in DOMAIN haircut_cache :
              /\ k \in DOMAIN haircut_cache'
              /\ heap'[haircut_cache'[k]] = heap[haircut_cache[k]]]_vars

C17_Witness ==
    /\ last.op = "process_frame" /\ last.applied # None
    /\ last.applied.loaded /\ ~last.applied.hit
    /\ CacheKey(last.gender, last.applied.haircut_path) \in DOMAIN haircut_cache
    /\ \E r \in TaskRequests :
          /\ inflight[r] > 0 /\ r.op = "process_frame"
          /\ r.data.gender = last.gender /\ r.data.haircut = last.haircut

NotFound == [success |-> FALSE, error |-> "Session not found"]

\* C18: with a reset of s in flight together with reads, resets and adjusts
\* of s, in every order of service a read answers with the complete stored
\* record or with not-found, no handler answers with another error, and a
\* handler serving session id s leaves the record of every other id as it
\* was.
C18_ResetRacingReads ==
    /\ [](last.op = "get_session" =>
            IF last.session_id \in DOMAIN active_sessions
            THEN /\ last.response =
                       [success |-> TRUE, session |-> active_sessions[last.session_id]]
                 /\ \E a \in AdjustmentValues :
                       last.response.session = [adjustments |-> a]
            ELSE last.response = NotFound)
    /\ [](last.op = "reset_session" =>
            (last.response.success \/ last.response = NotFound))
    /\ []((last.op = "process_frame" /\ last.applied # None) =>
            /\ last.response.success
            /\ last.applied.adjustments \in AdjustmentValues \cup {EmptyDict})
    /\ [][\A t \in SessionIds :
              (/\ last' # last
               /\ last'.op \in {"get_session", "reset_session", "adjust_haircut",
                                 "process_frame"}
               /\ last'.session_id # t) =>
                  /\ t \in DOMAIN active_sessions' <=> t \in DOMAIN active_sessions
                  /\ t \in DOMAIN active_sessions =>
                        active_sessions'[t] = active_sessions[t]]_vars

C18_Witness ==
    /\ last.op = "get_session" /\ last.session_id = "s1"
    /\ last.response = [success |-> TRUE, session |-> [adjustments |-> Full]]
    /\ inflight[Task("reset_session", "s1", EmptyDict, None)] > 0

\* The indices a:b selects, as a half-open range
Indices(a, b) == { i \in a..(b - 1) : TRUE }

C19_Bounds ==
    OverlayBounds(overlay_call.frame, overlay_call.haircut, OverlayX, OverlayY)

C19_BlendWrites ==
    IF overlay_call.done
    THEN { i \in DOMAIN overlay_call.result.writes :
              overlay_call.result.writes[i].stage = "blend" }
    ELSE {}

\* C19: for every placement, bitmap size and frame size the bitmap slice
\* [hy1:hy2, hx1:hx2] and the frame region [y1:y2, x1:x2] select equally
\* many columns and equally many rows, every index they select is an index
\* of the bitmap, respectively of the frame, the slice is non-empty exactly
\* when the region is non-empty, and a blend written to the frame covers
\* exactly that region, inside the frame, from a slice of the same shape.
C19_SliceMatchesRegion ==
    /\ C19_Bounds.x2 - C19_Bounds.x1 = C19_Bounds.hx2 - C19_Bounds.hx1
    /\ C19_Bounds.y2 - C19_Bounds.y1 = C19_Bounds.hy2 - C19_Bounds.hy1
    /\ Cardinality(Indices(C19_Bounds.x1, C19_Bounds.x2)) =
          Cardinality(Indices(C19_Bounds.hx1, C19_Bounds.hx2))
    /\ Cardinality(Indices(C19_Bounds.y1, C19_Bounds.y2)) =
          Cardinality(Indices(C19_Bounds.hy1, C19_Bounds.hy2))
    /\ Indices(C19_Bounds.x1, C19_Bounds.x2) \subseteq 0..(overlay_call.frame.w - 1)
    /\ Indices(C19_Bounds.y1, C19_Bounds.y2) \subseteq 0..(overlay_call.frame.h - 1)
    /\ Indices(C19_Bounds.hx1, C19_Bounds.hx2) \subseteq 0..(overlay_call.haircut.w - 1)
    /\ Indices(C19_Bounds.hy1, C19_Bounds.hy2) \subseteq 0..(overlay_call.haircut.h - 1)
    /\ SliceNonEmpty(C19_Bounds) <=>
          (C19_Bounds.x2 > C19_Bounds.x1 /\ C19_Bounds.y2 > C19_Bounds.y1)
    /\ \A i \in C19_BlendWrites :
          LET wr == overlay_call.result.writes[i] IN
          /\ 0 <= wr.x1 /\ wr.x1 < wr.x2 /\ wr.x2 <= overlay_call.frame.w
          /\ 0 <= wr.y1 /\ wr.y1 < wr.y2 /\ wr.y2 <= overlay_call.frame.h
          /\ 0 <= wr.hx1 /\ wr.hx1 < wr.hx2 /\ wr.hx2 <= overlay_call.haircut.w
          /\ 0 <= wr.hy1 /\ wr.hy1 < wr.hy2 /\ wr.hy2 <= overlay_call.haircut.h
          /\ wr.x2 - wr.x1 = wr.hx2 - wr.hx1
          /\ wr.y2 - wr.y1 = wr.hy2 - wr.hy1

\* a bitmap wider and taller than the frame, placed left of and above it, is
\* clipped on all four sides and blended
C19_Witness ==
    /\ C19_BlendWrites # {}
    /\ C19_Bounds.hx1 > 0 /\ C19_Bounds.hx2 < overlay_call.haircut.w
    /\ C19_Bounds.hy1 > 0 /\ C19_Bounds.hy2 < overlay_call.haircut.h

\* C20: whenever load_haircut returns a bitmap for the path the fallback
\* chain resolved, that bitmap is the normalized, preprocessed content of the
\* file at that path; a cache entry is never served for another file.
C20_LoadedIsResolvedFile ==
    (last.op = "resolve_and_load" /\ last.ret # NoRef) =>
        last.content =
            preprocess_haircut(Decode(last.haircut_path, store[last.haircut_path]))

====
